---- MODULE Spec2Model ----
(***************************************************************************)
(* Model of sam_sexing.py: sexing of samples from samtools idxstats files  *)
(* by the ratio of the reads mapped on the Y and X chromosomes.            *)
(*                                                                         *)
(* main() is one loop over the accepted files of the input directory       *)
(* followed by the writing of the report.  Its local variables (sex,       *)
(* ratio, threshold, seqlen_ychrom, seqlen_xchrom) are function locals of   *)
(* Python: they are unbound until first assigned and they keep their value *)
(* from one loop iteration to the next.  Reading an unbound local raises   *)
(* UnboundLocalError, which nothing in main() catches.                     *)
(*                                                                         *)
(* Numbers.  Read counts and sequence lengths are Python ints.  ratio and  *)
(* threshold are Python floats; they are modelled as exact fractions in    *)
(* lowest terms, which agrees with the float comparison and with float     *)
(* equality for the small integers of this model (distinct fractions with  *)
(* such small terms round to distinct doubles).                            *)
(*                                                                         *)
(* Lines.  A line of an idxstats file is its first three tab-separated     *)
(* columns.  The test `args.ychrom in line` is a substring test on the     *)
(* whole line; names here are made of letters, so only the name column can *)
(* contain them.                                                           *)
(***************************************************************************)
EXTENDS Integers, Sequences, FiniteSets, TLC

\* ---------------------------------------------------------------- bounds
MaxFiles == 2
MaxLines == 2
MaxReads == 2
MaxSeqLen == 2

\* ---------------------------------------------------------------- values
None == [tag |-> "None"]
\* a local variable that was never assigned (sex, a string, is "unbound" then)
Unbound == [tag |-> "unbound"]
PyInt(n) == [tag |-> "int", v |-> n]

RECURSIVE GCD(_, _)
GCD(a, b) == IF b = 0 THEN a ELSE GCD(b, a % b)

\* float(n) / float(d) for d > 0, as a fraction in lowest terms
PyFloat(n, d) == [tag |-> "float", n |-> n \div GCD(n, d), d |-> d \div GCD(n, d)]

\* a < b on floats
Less(a, b) == a.n * b.d < b.n * a.d

\* `s in t` of Python on strings, here sequences of letters
IsSubstring(s, t) ==
    \E i \in 0..(Len(t) - Len(s)) : SubSeq(t, i + 1, i + Len(s)) = s

\* ---------------------------------------------------------------- inputs
Names == {<<"Y">>, <<"X">>, <<"X", "Y">>, <<"M">>}
Lines == [name : Names, seqlen : 1..MaxSeqLen, nreads : 0..MaxReads]
Files == UNION {[1..n -> Lines] : n \in 0..MaxLines}
FloatArgs == {PyFloat(1, 2), PyFloat(2, 1)}

\* The parsed command line.  --threshold is read in single-threshold mode only
\* and --upper_threshold, --lower_threshold in two-threshold mode only, so the
\* options a mode does not read are left at their default, None.
OneThresholdConfigs ==
    [ychrom : {<<"Y">>}, xchrom : {<<"X">>},
     threshold : {None} \cup FloatArgs,
     min_y : {0, 1}, min_x : {0, 1},
     two_thresholds : {FALSE},
     upper_threshold : {None}, lower_threshold : {None}]
TwoThresholdsConfigs ==
    [ychrom : {<<"Y">>}, xchrom : {<<"X">>},
     threshold : {None},
     min_y : {0, 1}, min_x : {0, 1},
     two_thresholds : {TRUE},
     upper_threshold : {None} \cup FloatArgs,
     lower_threshold : {None} \cup FloatArgs]
Configs == OneThresholdConfigs \cup TwoThresholdsConfigs

\* The configurations of SpecFile: single-threshold mode with the default
\* --min_y 0 and --min_x 1, the threshold automatic or fixed
FileConfigs ==
    {a \in OneThresholdConfigs :
        a.min_y = 0 /\ a.min_x = 1 /\ a.threshold # PyFloat(2, 1)}

col_names == <<"id", "sex", "nreads_ychrom", "nreads_xchrom", "ratio", "threshold">>

VARIABLES args, data, sex, ratio, threshold, nreads_ychrom, nreads_xchrom,
          seqlen_ychrom, seqlen_xchrom, lines, pc, error, report, console

vars == <<args, data, sex, ratio, threshold, nreads_ychrom, nreads_xchrom,
          seqlen_ychrom, seqlen_xchrom, lines, pc, error, report, console>>

\* The local variables of main() as one record
Locals ==
    [sex |-> sex, ratio |-> ratio, threshold |-> threshold,
     nreads_ychrom |-> nreads_ychrom, nreads_xchrom |-> nreads_xchrom,
     seqlen_ychrom |-> seqlen_ychrom, seqlen_xchrom |-> seqlen_xchrom,
     error |-> ""]

Raise(s, kind) == [s EXCEPT !.error = kind]

\* ------------------------------------------------------------ the scan
\* ScanLine with a slip: the first matching line wins
ScanLineFirstWins(line, a, s) ==
    IF IsSubstring(a.ychrom, line.name)
    THEN IF s.nreads_ychrom # None THEN s
         ELSE [s EXCEPT !.nreads_ychrom = PyInt(line.nreads),
                        !.seqlen_ychrom = PyInt(line.seqlen)]
    ELSE IF IsSubstring(a.xchrom, line.name)
    THEN IF s.nreads_xchrom # None THEN s
         ELSE [s EXCEPT !.nreads_xchrom = PyInt(line.nreads),
                        !.seqlen_xchrom = PyInt(line.seqlen)]
    ELSE s

\* ScanLine with a slip: a sequence length once read is kept for later files
ScanLineKeepsSeqlen(line, a, s) ==
    IF IsSubstring(a.ychrom, line.name)
    THEN [s EXCEPT !.nreads_ychrom = PyInt(line.nreads),
                   !.seqlen_ychrom = IF @ = Unbound THEN PyInt(line.seqlen) ELSE @]
    ELSE IF IsSubstring(a.xchrom, line.name)
    THEN [s EXCEPT !.nreads_xchrom = PyInt(line.nreads),
                   !.seqlen_xchrom = IF @ = Unbound THEN PyInt(line.seqlen) ELSE @]
    ELSE s

\* One iteration of `for line in lines`
ScanLine(line, a, s) ==
    IF IsSubstring(a.ychrom, line.name)
    THEN [s EXCEPT !.nreads_ychrom = PyInt(line.nreads),
                   !.seqlen_ychrom = PyInt(line.seqlen)]
    ELSE IF IsSubstring(a.xchrom, line.name)
    THEN [s EXCEPT !.nreads_xchrom = PyInt(line.nreads),
                   !.seqlen_xchrom = PyInt(line.seqlen)]
    ELSE s

RECURSIVE ScanLines(_, _, _)
ScanLines(f, a, s) ==
    IF f = <<>> THEN s
    ELSE ScanLines(Tail(f), a, ScanLine(Head(f), a, s))

\* nreads_ychrom = None; nreads_xchrom = None; with open(...) as lines: for ...
ScanFile(f, a, s) ==
    ScanLines(f, a, [s EXCEPT !.nreads_ychrom = None, !.nreads_xchrom = None])

\* ------------------------------------------------------ the classifier
\* SexTwoThresholds with a slip: a ratio equal to the upper threshold is male
SexTwoThresholdsInclusive(a, r) ==
    IF ~Less(r, a.upper_threshold) THEN "male"
    ELSE IF Less(r, a.lower_threshold) THEN "female"
    ELSE "undetermined"

SexTwoThresholds(a, r) ==
    IF Less(a.upper_threshold, r) THEN "male"
    ELSE IF Less(r, a.lower_threshold) THEN "female"
    ELSE "undetermined"

SexOneThreshold(t, r) ==
    IF Less(t, r) THEN "male" ELSE "female"

\* float(seqlen_ychrom) * 0.25 / float(seqlen_xchrom)
AutoThreshold(sy, sx) == PyFloat(sy, 4 * sx)

Classify(a, s) ==
    IF s.nreads_ychrom = None \/ s.nreads_xchrom = None
    THEN [s EXCEPT !.sex = "undetermined", !.ratio = None, !.threshold = None]
    ELSE IF s.nreads_ychrom.v < a.min_y \/ s.nreads_xchrom.v < a.min_x
    THEN [s EXCEPT !.sex = "undetermined"]
    ELSE IF s.nreads_xchrom.v = 0
    THEN Raise(s, "ZeroDivisionError")
    ELSE LET r == PyFloat(s.nreads_ychrom.v, s.nreads_xchrom.v)
             s1 == [s EXCEPT !.ratio = r]
         IN  IF a.two_thresholds
             THEN IF a.lower_threshold = None \/ a.upper_threshold = None
                  THEN Raise(s1, "Exception")
                  ELSE [s1 EXCEPT !.sex = SexTwoThresholds(a, r)]
             ELSE IF a.threshold = None /\ s.seqlen_xchrom.v = 0
                  THEN Raise(s1, "ZeroDivisionError")
                  ELSE LET t == IF a.threshold = None
                                THEN AutoThreshold(s.seqlen_ychrom.v,
                                                   s.seqlen_xchrom.v)
                                ELSE a.threshold
                       IN  [s1 EXCEPT !.threshold = t,
                                      !.sex = SexOneThreshold(t, r)]

\* data += [[sample_name, sex, nreads_ychrom, nreads_xchrom, ratio, threshold]]
\* reads the locals: an unbound one raises UnboundLocalError
ReadLocals(s) ==
    IF s.error # "" THEN s
    ELSE IF s.sex = "unbound" \/ s.ratio = Unbound \/ s.threshold = Unbound
    THEN Raise(s, "UnboundLocalError")
    ELSE s

Row(sample_name, s) ==
    [id |-> sample_name, sex |-> s.sex, nreads_ychrom |-> s.nreads_ychrom,
     nreads_xchrom |-> s.nreads_xchrom, ratio |-> s.ratio,
     threshold |-> s.threshold]

\* ------------------------------------------------------------- actions
Start(a) ==
    /\ args = a
    /\ data = <<>>
    /\ sex = "unbound"
    /\ ratio = Unbound
    /\ threshold = Unbound
    /\ nreads_ychrom = Unbound
    /\ nreads_xchrom = Unbound
    /\ seqlen_ychrom = Unbound
    /\ seqlen_xchrom = Unbound
    /\ lines = <<>>
    /\ pc = "loop"
    /\ error = ""
    /\ report = [written |-> FALSE, columns |-> <<>>, rows |-> <<>>]
    /\ console = [message |-> "", value |-> None]

Init == \E a \in Configs : Start(a)

InitFile == \E a \in FileConfigs : Start(a)

\* One iteration of the loop over os.listdir for the accepted file f.  The
\* files of the directory are named 1, 2, ... in the order listdir gives them.
Iteration(f) ==
    LET s == ReadLocals(Classify(args, ScanFile(f, args, Locals)))
    IN  /\ sex' = s.sex
        /\ ratio' = s.ratio
        /\ threshold' = s.threshold
        /\ nreads_ychrom' = s.nreads_ychrom
        /\ nreads_xchrom' = s.nreads_xchrom
        /\ seqlen_ychrom' = s.seqlen_ychrom
        /\ seqlen_xchrom' = s.seqlen_xchrom
        /\ error' = s.error
        /\ IF s.error = ""
           THEN /\ data' = Append(data, Row(Len(data) + 1, s))
                /\ pc' = "loop"
           ELSE /\ data' = data
                /\ pc' = "failed"
        /\ UNCHANGED <<args, report, console>>

\* The iteration, the content of the file forgotten once it is closed
ProcessFile ==
    /\ pc = "loop"
    /\ Len(data) < MaxFiles
    /\ \E f \in Files : Iteration(f) /\ lines' = <<>>

\* The iteration, lines keeping the content of the file it read
ProcessFileKeep ==
    /\ pc = "loop"
    /\ Len(data) < MaxFiles
    /\ \E f \in Files : Iteration(f) /\ lines' = f

\* df_sexing["threshold"].dropna().unique()
UniqueThresholds(d) == {d[i].threshold : i \in 1..Len(d)} \ {None}

\* The end of the listing: the report and the console line about the threshold
Finish ==
    /\ pc = "loop"
    /\ IF Cardinality(UniqueThresholds(data)) = 1
       THEN /\ report' = [written |-> TRUE,
                          columns |-> SelectSeq(col_names, LAMBDA c : c # "threshold"),
                          rows |-> data]
            /\ IF threshold = Unbound
               THEN /\ pc' = "failed"
                    /\ error' = "UnboundLocalError"
                    /\ console' = console
               ELSE /\ pc' = "done"
                    /\ error' = error
                    /\ console' = [message |-> "threshold = ", value |-> threshold]
       ELSE /\ report' = [written |-> TRUE, columns |-> col_names, rows |-> data]
            /\ console' = [message |-> "Threshold was differently set among samples",
                           value |-> None]
            /\ pc' = "done"
            /\ error' = error
    /\ UNCHANGED <<args, data, sex, ratio, threshold, nreads_ychrom,
                   nreads_xchrom, seqlen_ychrom, seqlen_xchrom, lines>>

Next == ProcessFile \/ Finish

Spec == Init /\ [][Next]_vars

NextFile == ProcessFileKeep \/ Finish

SpecFile == InitFile /\ [][NextFile]_vars

\* ------------------------------------------------------------ properties
Rows == {data[i] : i \in 1..Len(data)}

\* Both names were found in the file of row r
BothFound(r) == r.nreads_ychrom # None /\ r.nreads_xchrom # None

\* Both names were found and both counts reach their floor: the ratio of the
\* sample of row r is computed
FloorsMet(r) ==
    /\ BothFound(r)
    /\ r.nreads_ychrom.v >= args.min_y
    /\ r.nreads_xchrom.v >= args.min_x

BoundsSet == args.upper_threshold # None /\ args.lower_threshold # None

\* nreads_ychrom / nreads_xchrom of row r against the float t, on the integers
CountsAbove(r, t) == t.n * r.nreads_xchrom.v < r.nreads_ychrom.v * t.d
CountsBelow(r, t) == r.nreads_ychrom.v * t.d < t.n * r.nreads_xchrom.v

DistinctThresholds == {r.threshold : r \in Rows} \ {None}

\* C1: in every row the ratio is present if and only if both counts are
\* present and each reaches its minimum.
C1_RatioIffFloorsMet == \A r \in Rows : (r.ratio # None) <=> FloorsMet(r)

\* C2: in every row the threshold is present only in single-threshold mode
\* and only if the ratio of that sample was computed.
C2_ThresholdOnlyWhenComputed ==
    \A r \in Rows :
        r.threshold # None => (~args.two_thresholds /\ FloorsMet(r))

\* C3: in single-threshold mode every row with a ratio is male if and only if
\* its ratio is above its threshold, and female otherwise.
C3_BinarySplit ==
    ~args.two_thresholds =>
        \A r \in Rows :
            r.ratio # None =>
                /\ r.threshold # None
                /\ r.sex \in {"male", "female"}
                /\ (r.sex = "male") <=> Less(r.threshold, r.ratio)

\* C4 as stated: in two-threshold mode with both bounds set, whatever their
\* order, a computed ratio above upper is male, one below lower is female,
\* one in [lower, upper] is undetermined, and a ratio equal to a bound is
\* undetermined.
C4_TwoThresholdsAsStated ==
    (args.two_thresholds /\ BoundsSet) =>
        \A r \in Rows :
            FloorsMet(r) =>
                /\ CountsAbove(r, args.upper_threshold) => r.sex = "male"
                /\ CountsBelow(r, args.lower_threshold) => r.sex = "female"
                /\ (~CountsBelow(r, args.lower_threshold)
                      /\ ~CountsAbove(r, args.upper_threshold))
                   => r.sex = "undetermined"
                /\ (r.ratio = args.upper_threshold \/ r.ratio = args.lower_threshold)
                   => r.sex = "undetermined"

\* C4 amended: in two-threshold mode with both bounds set, a computed ratio
\* above upper is male; one not above upper and below lower is female; one in
\* [lower, upper] is undetermined; with lower <= upper a ratio equal to a
\* bound is undetermined.
C4_TwoThresholds ==
    (args.two_thresholds /\ BoundsSet) =>
        \A r \in Rows :
            FloorsMet(r) =>
                /\ CountsAbove(r, args.upper_threshold) => r.sex = "male"
                /\ (CountsBelow(r, args.lower_threshold)
                      /\ ~CountsAbove(r, args.upper_threshold))
                   => r.sex = "female"
                /\ (~CountsBelow(r, args.lower_threshold)
                      /\ ~CountsAbove(r, args.upper_threshold))
                   => r.sex = "undetermined"
                /\ (~Less(args.upper_threshold, args.lower_threshold)
                      /\ (r.ratio = args.upper_threshold
                            \/ r.ratio = args.lower_threshold))
                   => r.sex = "undetermined"

\* A row of two-threshold mode with lower above upper and the ratio between
C4_Witness ==
    /\ args.two_thresholds
    /\ BoundsSet
    /\ \E r \in Rows :
        /\ FloorsMet(r)
        /\ CountsAbove(r, args.upper_threshold)
        /\ CountsBelow(r, args.lower_threshold)
        /\ r.sex = "male"

\* C5: the report is written without the threshold column and without the
\* "differently set" message if and only if at most one distinct threshold
\* occurs in the table, none included.
C5_UniformIffAtMostOne ==
    pc = "done" =>
        (("threshold" \notin {report.columns[i] : i \in 1..Len(report.columns)}
            /\ console.message # "Threshold was differently set among samples")
         <=> Cardinality(DistinctThresholds) <= 1)

\* C6: in two-threshold mode with a bound unset the run never completes and
\* never writes the report, and when it has failed no row has been produced.
C6_MissingBoundsAlwaysFail ==
    (args.two_thresholds /\ ~BoundsSet) =>
        /\ pc # "done"
        /\ ~report.written
        /\ pc = "failed" => data = <<>>

\* C7: a run that aborts aborts with the two-threshold configuration error,
\* and a run that completes reports every row.
C7_OnlyConfigurationAborts ==
    /\ pc = "failed" =>
          (error = "Exception" /\ args.two_thresholds /\ ~BoundsSet)
    /\ pc = "done" => (report.written /\ report.rows = data)

\* The lines of the file read that contain the Y name, the X name, and the X
\* name but not the Y name
YLines == {i \in 1..Len(lines) : IsSubstring(args.ychrom, lines[i].name)}
XLines == {i \in 1..Len(lines) : IsSubstring(args.xchrom, lines[i].name)}
XOnlyLines == XLines \ YLines

Min(S) == CHOOSE i \in S : \A j \in S : i <= j
Max(S) == CHOOSE i \in S : \A j \in S : j <= i

\* An iteration has read a file, whose content lines holds
FileRead == Len(data) > 0 \/ pc = "failed"

\* C8 as stated: the Y values recorded are those of the first line containing
\* the Y name and the X values those of the first line containing the X name.
C8_FirstLineWins ==
    FileRead =>
        /\ YLines # {} =>
              /\ nreads_ychrom = PyInt(lines[Min(YLines)].nreads)
              /\ seqlen_ychrom = PyInt(lines[Min(YLines)].seqlen)
        /\ XLines # {} =>
              /\ nreads_xchrom = PyInt(lines[Min(XLines)].nreads)
              /\ seqlen_xchrom = PyInt(lines[Min(XLines)].seqlen)

\* C8 amended: the Y values recorded are those of the last line containing
\* the Y name, and the X values those of the last line that contains the X
\* name and not the Y name; a count with no such line is absent.
C8_LastLineWins ==
    FileRead =>
        /\ IF YLines # {}
           THEN /\ nreads_ychrom = PyInt(lines[Max(YLines)].nreads)
                /\ seqlen_ychrom = PyInt(lines[Max(YLines)].seqlen)
           ELSE nreads_ychrom = None
        /\ IF XOnlyLines # {}
           THEN /\ nreads_xchrom = PyInt(lines[Max(XOnlyLines)].nreads)
                /\ seqlen_xchrom = PyInt(lines[Max(XOnlyLines)].seqlen)
           ELSE nreads_xchrom = None

\* A file with two lines containing the Y name that differ, and one with two
\* lines containing the X name of which the last contains the Y name too
C8_Witness ==
    /\ FileRead
    /\ Len(lines) = 2
    /\ \/ /\ YLines = {1, 2}
          /\ lines[1].nreads # lines[2].nreads
          /\ lines[1].seqlen # lines[2].seqlen
          /\ nreads_ychrom = PyInt(lines[2].nreads)
       \/ /\ XLines = {1, 2}
          /\ XOnlyLines = {1}
          /\ nreads_xchrom = PyInt(lines[1].nreads)

\* C9: in single-threshold mode every row appended for a sample whose ratio
\* is computed holds the configured threshold, or with none configured
\* 0.25 * seqlen_y / seqlen_x of the lengths in the file just read; the rows
\* before it are left as they were.
C9_ThresholdOfOwnFile ==
    [][(Len(data') = Len(data) + 1 /\ ~args.two_thresholds) =>
          LET r == data'[Len(data')]
          IN  /\ SubSeq(data', 1, Len(data)) = data
              /\ FloorsMet(r) =>
                    /\ r.threshold # None
                    /\ IF args.threshold # None
                       THEN r.threshold = args.threshold
                       ELSE 4 * r.threshold.n * lines'[Max(XOnlyLines')].seqlen
                              = r.threshold.d * lines'[Max(YLines')].seqlen]_vars

\* Two samples with a computed ratio, the automatic threshold of the second
\* differing from that of the first
C9_Witness ==
    /\ ~args.two_thresholds
    /\ args.threshold = None
    /\ Len(data) = 2
    /\ FloorsMet(data[1])
    /\ FloorsMet(data[2])
    /\ data[1].threshold # data[2].threshold
    /\ 4 * data[2].threshold.n * lines[Max(XOnlyLines)].seqlen
         = data[2].threshold.d * lines[Max(YLines)].seqlen

\* C10: when the completed table holds exactly one distinct threshold, the
\* threshold printed on the console is that value.
C10_PrintedThreshold ==
    (pc = "done" /\ Cardinality(DistinctThresholds) = 1) =>
        console.value \in DistinctThresholds

====
